---- MODULE Spec2Model ----
(***************************************************************************)
(* Order lifecycle and reconciliation engine of the hospital platform:     *)
(* billing and payments, lab / radiology orders, sequence numbers, the OPD  *)
(* queue, the pharmacy stock ledger and the bed / admission pairing.        *)
(*                                                                          *)
(* Every route handler is a sequence of awaited database calls.  A handler  *)
(* is modelled by one action per group of calls that the database runs as   *)
(* one unit: the reads and validations before a write (or before            *)
(* prisma.$transaction) are one step, the write (or the transaction) is the *)
(* next.  A request in flight sits in a slot of req between its steps, with *)
(* the values it read; other requests run in between.                       *)
(*                                                                          *)
(* Money is counted in whole units; one hospital and one day are modelled.  *)
(***************************************************************************)
EXTENDS FiniteSets, Integers, Sequences, TLC

VARIABLES
    bills,      \* Bill rows in createdAt order; each owns its BillItem rows
    payments,   \* Payment rows in creation order
    orders,     \* LabOrder / RadiologyOrder rows in createdAt order, with items
    consultations, \* Consultation rows in createdAt order
    tokens,     \* OpdToken rows of today in createdAt order
    medicines,  \* Medicine rows in createdAt order
    movements,  \* MedicineStockMovement rows in creation order
    prescriptions, \* Prescription rows in createdAt order, with their items
    beds,       \* Bed rows in createdAt order
    admissions, \* Admission rows in createdAt order
    schedules,  \* MedicationSchedule rows in creation order
    req         \* the requests in flight: slot -> what the handler holds

billingVars == <<bills, payments>>
opdVars == <<tokens, consultations>>
stockVars == <<medicines, movements, prescriptions>>
ipdVars == <<beds, admissions, schedules>>

vars == <<billingVars, orders, opdVars, stockVars, ipdVars, req>>

(***************************************************************************)
(* Bounds of the model.                                                     *)
(***************************************************************************)
MaxReq == 2          \* requests in flight at once
MaxBills == 1        \* Bill rows created in a behaviour that also pays them
MaxIssued == 3       \* rows of one kind created one after the other
MaxBillItems == 2    \* items of one create-bill request
MaxPrice == 2        \* largest unit price / catalog price
MaxDiscount == 2     \* largest discount of a create-bill request
MaxPay == 2          \* largest amount of a record-payment request
MaxPayments == 3     \* Payment rows created

Reqs == 1..MaxReq
Idle == [op |-> "idle"]

\* errorResponse(res, message, code): the handler has answered with code and
\* holds nothing more; the slot is free again once the answer is sent.
Replied(to, code) == [op |-> "replied", to |-> to, code |-> code]

Respond(r) ==
    /\ req[r].op = "replied"
    /\ req' = [req EXCEPT ![r] = Idle]
    /\ UNCHANGED <<billingVars, orders, opdVars, stockVars, ipdVars>>

\* The requests in flight that run handler op (used to bound the tables).
InFlight(op) == Cardinality({r \in Reqs : req[r].op = op})

RECURSIVE SumSeq(_)
SumSeq(s) == IF s = <<>> THEN 0 ELSE Head(s) + SumSeq(Tail(s))

RECURSIVE Factorial(_)
Factorial(n) == IF n <= 1 THEN 1 ELSE n * Factorial(n - 1)

Range(s) == {s[i] : i \in DOMAIN s}

(***************************************************************************)
(* An order's paidAmount is a Decimal; the payment handler increments it by *)
(* paymentAmount / n for n linked ids.  It is kept as a multiple of         *)
(* 1 / PaidScale so that the quotient is exact for every n the model has.   *)
(***************************************************************************)
PaidScale == Factorial(MaxBillItems + 1)

(***************************************************************************)
(* Sequence numbers.  An identifier is a fixed prefix (kind and date) and a *)
(* decimal suffix; the model keeps the suffix as its sequence of            *)
(* characters.  A character is the number it stands for as a digit of base  *)
(* 36: 0..9 are the decimal digits, 10..35 the letters a..z.                *)
(***************************************************************************)
RECURSIVE Digits(_)
Digits(n) == IF n < 10 THEN <<n>> ELSE Digits(n \div 10) \o <<n % 10>>

RECURSIVE PadStart(_, _)
PadStart(s, w) == IF Len(s) >= w THEN s ELSE PadStart(<<0>> \o s, w)

NaN == -1    \* stands for the number NaN

NaNText == <<23, 10, 23>>    \* String(NaN), the text "NaN"

\* The decimal digits a text starts with: parseInt stops at the first
\* character that is not a digit.
LeadingDigits(s) ==
    SubSeq(s, 1, Cardinality({n \in DOMAIN s : \A i \in 1..n : s[i] \in 0..9}))

RECURSIVE DigitsValue(_)
DigitsValue(s) ==
    IF s = <<>> THEN 0 ELSE 10 * DigitsValue(SubSeq(s, 1, Len(s) - 1)) + s[Len(s)]

\* parseInt(text): the value of the leading digits, NaN when there is none.
ParseInt(s) == IF LeadingDigits(s) = <<>> THEN NaN ELSE DigitsValue(LeadingDigits(s))

\* String(lastNumber + 1); NaN + 1 is NaN.
NextNumberText(lastNumber) ==
    IF lastNumber = NaN THEN NaNText ELSE Digits(lastNumber + 1)

PadWidth == 3

\* The number of the row created last, issued again.
ReissueLast(numbers) ==
    IF numbers = <<>> THEN PadStart(Digits(1), PadWidth) ELSE numbers[Len(numbers)]

\* findFirst({ orderBy: { createdAt: 'desc' } }): the row created last, or none.
\* numbers holds the identifiers of the scope in createdAt order.
NextNumber(numbers) ==
    IF numbers = <<>> THEN PadStart(Digits(1), PadWidth)
    ELSE PadStart(NextNumberText(ParseInt(numbers[Len(numbers)])), PadWidth)

generateBillNumber == NextNumber([i \in DOMAIN bills |-> bills[i].billNumber])

(***************************************************************************)
(* Billing: POST / (create bill).                                           *)
(***************************************************************************)
QtyOr1(q) == IF q = 0 THEN 1 ELSE q       \* item.quantity || 1

LabIds == {i \in DOMAIN orders : orders[i].kind = "LAB"}
RadIds == {i \in DOMAIN orders : orders[i].kind = "RAD"}

\* The items a create-bill request may carry; 0 stands for an absent field.
BillItemInputs ==
    [unitPrice : 1..MaxPrice, quantity : {0},
     labOrderId : {0} \cup LabIds, radiologyOrderId : {0}]
    \cup
    [unitPrice : 1..MaxPrice, quantity : {0},
     labOrderId : {0}, radiologyOrderId : RadIds]

BillItemsInputs == UNION {[1..n -> BillItemInputs] : n \in 1..MaxBillItems}

BillItemRow(item) ==
    [quantity |-> QtyOr1(item.quantity),
     unitPrice |-> item.unitPrice,
     totalPrice |-> item.unitPrice * QtyOr1(item.quantity),
     labOrderId |-> item.labOrderId,
     radiologyOrderId |-> item.radiologyOrderId]

Subtotal(items) ==
    SumSeq([i \in DOMAIN items |-> items[i].unitPrice * QtyOr1(items[i].quantity)])

\* Reads and validations up to generateBillNumber.
CreateBillRead(r) ==
    /\ req[r] = Idle
    /\ Len(bills) + InFlight("createBill") < MaxIssued
    /\ \E items \in BillItemsInputs, discount \in 0..MaxDiscount, tax \in {0} :
         LET subtotal == Subtotal(items)
             totalAmount == subtotal - discount + tax
         IN req' = [req EXCEPT ![r] =
                [op |-> "createBill",
                 row |-> [billNumber |-> generateBillNumber,
                          subtotal |-> subtotal,
                          discount |-> discount,
                          tax |-> tax,
                          totalAmount |-> totalAmount,
                          paidAmount |-> 0,
                          status |-> "PENDING",
                          items |-> [i \in DOMAIN items |-> BillItemRow(items[i])]]]]
    /\ UNCHANGED <<bills, payments, orders, opdVars, stockVars, ipdVars>>

\* prisma.bill.create; the unique index on (hospitalId, billNumber) makes a
\* create with a number already in the table fail, and the handler answers 500.
CreateBillWrite(r) ==
    /\ req[r].op = "createBill"
    /\ IF \E i \in DOMAIN bills : bills[i].billNumber = req[r].row.billNumber
       THEN /\ bills' = bills
            /\ req' = [req EXCEPT ![r] = Replied("createBill", 500)]
       ELSE /\ bills' = Append(bills, req[r].row)
            /\ req' = [req EXCEPT ![r] = Idle]
    /\ UNCHANGED <<payments, orders, opdVars, stockVars, ipdVars>>

(***************************************************************************)
(* Billing: POST /:id/payments (record payment).                            *)
(***************************************************************************)
PayAmounts == (-1..MaxPay) \ {0}          \* !amount rejects an absent or zero amount

\* The bill fetched with its items (include: { items: true }).
BillWithItems(b) ==
    [id |-> b,
     totalAmount |-> bills[b].totalAmount,
     paidAmount |-> bills[b].paidAmount,
     hasItems |-> TRUE,
     items |-> bills[b].items]

\* prisma.bill.findUnique({ where: { id }, include: { payments: true } }): the
\* bill's scalar fields and its payments.  The items relation is not included,
\* so the fetched object has no items.
FetchedBill(b) ==
    [id |-> b,
     totalAmount |-> bills[b].totalAmount,
     paidAmount |-> bills[b].paidAmount,
     hasItems |-> FALSE,
     items |-> <<>>]

\* paymentAmount > remainingAmount, of the bill as fetched.
OverBalance(bill, paymentAmount) ==
    LET remainingAmount == bill.totalAmount - bill.paidAmount
    IN paymentAmount > remainingAmount

\* POST /:id/payments up to the transaction: the bill lookup and the balance
\* check, which answers 400 when the amount exceeds the remaining balance.
RecordPaymentRead(r) ==
    /\ req[r] = Idle
    /\ Len(payments) + InFlight("recordPayment") < MaxPayments
    /\ \E b \in DOMAIN bills, amount \in PayAmounts :
         LET bill == FetchedBill(b)
         IN req' = [req EXCEPT ![r] =
                IF OverBalance(bill, amount)
                THEN Replied("recordPayment", 400)
                ELSE [op |-> "recordPayment", bill |-> bill, paymentAmount |-> amount]]
    /\ UNCHANGED <<bills, payments, orders, opdVars, stockVars, ipdVars>>

\* bill.items?.filter(item => item.labOrderId).map(item => item.labOrderId) || []
\* (and the same for radiologyOrderId); field names the reference.
LinkedIds(bill, field) ==
    IF bill.hasItems
    THEN LET linked == SelectSeq(bill.items, LAMBDA item : item[field] # 0)
         IN [i \in DOMAIN linked |-> linked[i][field]]
    ELSE <<>>

\* updateMany({ where: { id: { in: ids } },
\*              data: { status: 'PAID', paidAmount: { increment: amount / ids.length } } })
MarkOrdersPaid(os, ids, amount) ==
    IF Len(ids) > 0
    THEN [o \in DOMAIN os |->
            IF o \in Range(ids)
            THEN [os[o] EXCEPT !.status = "PAID",
                               !.paidAmount = @ + (amount * PaidScale) \div Len(ids)]
            ELSE os[o]]
    ELSE os

NewBillStatus(newPaidAmount, totalAmount) ==
    IF newPaidAmount >= totalAmount THEN "PAID" ELSE "PARTIALLY_PAID"

\* The writes of the payment transaction in the order it makes them, and the
\* points at which one of them can throw ("none": the transaction commits).
PaymentWrites == <<"payment", "bill", "orders">>
PaymentFailures == {"none"} \cup Range(PaymentWrites)

\* The writes that persist when every write before the failing one is kept.
WritesBefore(failure) ==
    {PaymentWrites[i] : i \in {k \in DOMAIN PaymentWrites :
        \A j \in 1..k : PaymentWrites[j] # failure}}

\* prisma.$transaction(async (tx) => ...) with every write made through tx:
\* the writes persist together when the callback returns, none when it throws.
PaymentWritesKept(failure) ==
    IF failure = "none" THEN Range(PaymentWrites) ELSE {}

\* The prisma.$transaction body: payment row, bill update, linked orders.
\* A throw inside it is caught by the handler and answered with 500.
RecordPaymentTx(r) ==
    /\ req[r].op = "recordPayment"
    /\ \E failure \in PaymentFailures :
         LET bill == req[r].bill
             paymentAmount == req[r].paymentAmount
             newPaidAmount == bill.paidAmount + paymentAmount
             newStatus == NewBillStatus(newPaidAmount, bill.totalAmount)
             kept == PaymentWritesKept(failure)
         IN /\ payments' = IF "payment" \in kept
                           THEN Append(payments,
                                   [billId |-> bill.id, amount |-> paymentAmount])
                           ELSE payments
            /\ bills' = IF "bill" \in kept
                        THEN [bills EXCEPT ![bill.id].paidAmount = newPaidAmount,
                                           ![bill.id].status = newStatus]
                        ELSE bills
            /\ orders' = IF "orders" \in kept /\ newStatus = "PAID"
                         THEN MarkOrdersPaid(
                                MarkOrdersPaid(orders, LinkedIds(bill, "labOrderId"),
                                               paymentAmount),
                                LinkedIds(bill, "radiologyOrderId"), paymentAmount)
                         ELSE orders
            /\ req' = [req EXCEPT ![r] =
                   IF failure = "none" THEN Idle ELSE Replied("recordPayment", 500)]
    /\ UNCHANGED <<opdVars, stockVars, ipdVars>>

(***************************************************************************)
(* Billing: PATCH /:id/cancel.                                              *)
(***************************************************************************)
CancelBillRead(r) ==
    /\ req[r] = Idle
    /\ \E b \in DOMAIN bills :
         /\ ~(bills[b].paidAmount > 0)
         /\ req' = [req EXCEPT ![r] = [op |-> "cancelBill", id |-> b]]
    /\ UNCHANGED <<bills, payments, orders, opdVars, stockVars, ipdVars>>

CancelBillWrite(r) ==
    /\ req[r].op = "cancelBill"
    /\ bills' = [bills EXCEPT ![req[r].id].status = "CANCELLED"]
    /\ req' = [req EXCEPT ![r] = Idle]
    /\ UNCHANGED <<payments, orders, opdVars, stockVars, ipdVars>>

(***************************************************************************)
(* The billing specification: two orders awaiting payment exist, one lab    *)
(* and one radiology, each for one test at price 1.                         *)
(***************************************************************************)
SeedOrder(kind) ==
    [kind |-> kind, orderNumber |-> PadStart(Digits(1), PadWidth),
     status |-> "PENDING_PAYMENT", totalAmount |-> 1, paidAmount |-> 0,
     items |-> <<[testId |-> 1, price |-> 1, status |-> "PENDING", result |-> FALSE]>>]

\* The tables as the migration creates them, and no request in flight.
InitEmpty ==
    /\ bills = <<>>
    /\ payments = <<>>
    /\ orders = <<>>
    /\ tokens = <<>>
    /\ consultations = <<>>
    /\ medicines = <<>>
    /\ movements = <<>>
    /\ prescriptions = <<>>
    /\ beds = <<>>
    /\ admissions = <<>>
    /\ schedules = <<>>
    /\ req = [r \in Reqs |-> Idle]

InitBilling ==
    /\ bills = <<>>
    /\ payments = <<>>
    /\ orders = <<SeedOrder("LAB"), SeedOrder("RAD")>>
    /\ tokens = <<>>
    /\ consultations = <<>>
    /\ medicines = <<>>
    /\ movements = <<>>
    /\ prescriptions = <<>>
    /\ beds = <<>>
    /\ admissions = <<>>
    /\ schedules = <<>>
    /\ req = [r \in Reqs |-> Idle]

NextBilling ==
    \E r \in Reqs :
        \/ Len(bills) + InFlight("createBill") < MaxBills /\ CreateBillRead(r)
        \/ CreateBillWrite(r)
        \/ RecordPaymentRead(r)
        \/ RecordPaymentTx(r)
        \/ CancelBillRead(r)
        \/ CancelBillWrite(r)
        \/ Respond(r)

SpecBilling == InitBilling /\ [][NextBilling]_vars

(***************************************************************************)
(* Billing claims.                                                          *)
(***************************************************************************)
PaymentsOf(b) ==
    LET ofBill == SelectSeq(payments, LAMBDA p : p.billId = b)
    IN [i \in DOMAIN ofBill |-> ofBill[i].amount]

\* The orders a bill's stored items reference.
LinkedOrdersOf(bill) ==
    ({bill.items[i].labOrderId : i \in DOMAIN bill.items}
       \cup {bill.items[i].radiologyOrderId : i \in DOMAIN bill.items}) \ {0}

\* C1: for every Bill, in every reachable state, concurrent record-payment
\* requests included, the amounts of its Payment rows sum to Bill.paidAmount.
C1_PaymentsSumToPaidAmount ==
    \A b \in DOMAIN bills : SumSeq(PaymentsOf(b)) = bills[b].paidAmount

\* C2: the payment that brings a bill to PAID moves, in the same operation,
\* every order referenced by the bill's items from PENDING_PAYMENT to PAID.
C2_PaidBillMarksLinkedOrdersPaid ==
    [][\A b \in DOMAIN bills :
          (bills[b].status # "PAID" /\ bills'[b].status = "PAID")
          => \A o \in LinkedOrdersOf(bills[b]) :
                orders[o].status = "PENDING_PAYMENT" => orders'[o].status = "PAID"]_vars

\* C9: for every Bill, in every reachable state, paidAmount <= totalAmount.
C9_PaidAtMostTotal ==
    \A b \in DOMAIN bills : bills[b].paidAmount <= bills[b].totalAmount

\* C10: for every Bill, in every reachable state, status = PAID if and only
\* if paidAmount >= totalAmount.
C10_PaidIffFullyPaid ==
    \A b \in DOMAIN bills :
        (bills[b].status = "PAID") <=> (bills[b].paidAmount >= bills[b].totalAmount)

\* C11: a record-payment request that fails at any of its writes leaves the
\* bills, the payments and the orders as they were; one that does not fail
\* inserts its Payment and writes the bill's paidAmount in the same step.
C11_PaymentAllOrNothing ==
    [][\A r \in Reqs :
          req[r].op = "recordPayment" /\ req'[r] # req[r]
          => \/ /\ req'[r] = Replied("recordPayment", 500)
                /\ UNCHANGED <<bills, payments, orders>>
             \/ /\ req'[r] = Idle
                /\ payments' = Append(payments,
                      [billId |-> req[r].bill.id, amount |-> req[r].paymentAmount])
                /\ bills'[req[r].bill.id].paidAmount =
                      req[r].bill.paidAmount + req[r].paymentAmount]_vars

\* A payment transaction has thrown after a bill took an earlier payment.
C11_Witness ==
    \E r \in Reqs :
        /\ req[r] = Replied("recordPayment", 500)
        /\ \E b \in DOMAIN bills : bills[b].paidAmount > 0

\* C12: across any sequence or interleaving of payments on one bill, the
\* orders linked to the bill receive the PAID transition and their paidAmount
\* update exactly once, from the payment that brings the bill to PAID: so the
\* linked orders of a PAID bill are PAID and carry a paid amount.
C12_PropagatedOnce ==
    \A b \in DOMAIN bills :
        bills[b].status = "PAID"
        => \A o \in LinkedOrdersOf(bills[b]) :
              orders[o].status = "PAID" /\ orders[o].paidAmount # 0

\* C13: a record-payment request whose amount exceeds totalAmount -
\* paidAmount of the bill is rejected, and the rejection creates no Payment
\* and leaves the bills and the orders unchanged: every Payment inserted is
\* within the balance the bill has when it is inserted.
C13_OverpaymentRejected ==
    [][/\ Len(payments') > Len(payments)
          => LET payment == payments'[Len(payments')]
             IN payment.amount <= bills[payment.billId].totalAmount
                                    - bills[payment.billId].paidAmount
       /\ \A r \in Reqs :
             (req[r] = Idle /\ req'[r] = Replied("recordPayment", 400))
                => UNCHANGED <<bills, payments, orders>>]_vars

\* C24: a Bill with paidAmount > 0 is never CANCELLED, also when a cancel
\* request and a payment request on it run concurrently.
C24_PaidBillNotCancelled ==
    \A b \in DOMAIN bills :
        bills[b].paidAmount > 0 => bills[b].status # "CANCELLED"

\* C33: when a payment brings a bill with linked orders to PAID, the
\* paidAmount increments that the step applies to the lab and radiology
\* orders sum to the amount of the payment.
C33_IncrementsSumToPayment ==
    [][\A b \in DOMAIN bills :
          /\ bills[b].status # "PAID"
          /\ bills'[b].status = "PAID"
          /\ Len(payments') > Len(payments)
          /\ LinkedOrdersOf(bills[b]) # {}
          => SumSeq([o \in DOMAIN orders |->
                        orders'[o].paidAmount - orders[o].paidAmount])
               = payments'[Len(payments')].amount * PaidScale]_vars

\* C36: a CANCELLED bill is terminal: no step moves a bill from CANCELLED
\* to another status, and no Payment is inserted for a bill that is CANCELLED.
C36_CancelledBillIsTerminal ==
    [][\A b \in DOMAIN bills :
          bills[b].status = "CANCELLED"
          => /\ bills'[b].status = "CANCELLED"
             /\ Len(payments') > Len(payments)
                => payments'[Len(payments')].billId # b]_vars

\* C37: no step decreases a bill's paidAmount or moves a bill from PAID to
\* PARTIALLY_PAID, and no Payment of a zero or negative amount is inserted.
C37_PaidAmountNeverDecreases ==
    [][/\ \A b \in DOMAIN bills :
             /\ bills'[b].paidAmount >= bills[b].paidAmount
             /\ ~(bills[b].status = "PAID" /\ bills'[b].status = "PARTIALLY_PAID")
       /\ Len(payments') > Len(payments)
             => payments'[Len(payments')].amount > 0]_vars

(***************************************************************************)
(* Bill creations that overlap: MaxRaced creations, in flight together or   *)
(* one after the other.                                                     *)
(***************************************************************************)
MaxRaced == 2    \* bill creations of a behaviour of SpecBillRace

NextBillRace ==
    \E r \in Reqs :
        \/ Len(bills) + InFlight("createBill") < MaxRaced /\ CreateBillRead(r)
        \/ CreateBillWrite(r)
        \/ Respond(r)

SpecBillRace == InitBilling /\ [][NextBillRace]_vars

\* C31: a bill creation that collides on the unique bill number is retried
\* and is not answered with a failure at its first collision: the step of a
\* creation whose number is already in the table, while the table has room
\* for a free number, does not end in the 500 reply.
C31_CollisionIsRetried ==
    [][\A r \in Reqs :
          /\ req[r].op = "createBill"
          /\ \E i \in DOMAIN bills : bills[i].billNumber = req[r].row.billNumber
          => req'[r] # Replied("createBill", 500)]_vars

(***************************************************************************)
(* Bill creation over a stored bill of today.  Bill.billNumber is a TEXT    *)
(* column: the stored number is any text after the BILL-<date>- prefix.     *)
(***************************************************************************)
StoredBill(billNumber) ==
    [billNumber |-> billNumber, subtotal |-> 1, discount |-> 0, tax |-> 0,
     totalAmount |-> 1, paidAmount |-> 0, status |-> "PENDING",
     items |-> <<[quantity |-> 1, unitPrice |-> 1, totalPrice |-> 1,
                  labOrderId |-> 0, radiologyOrderId |-> 0]>>]

\* The suffixes of the stored bill: 001, 0z1, z01, zzz and NaN.
StoredSuffixes ==
    {<<0, 0, 1>>, <<0, 35, 1>>, <<35, 0, 1>>, <<35, 35, 35>>, NaNText}

InitStoredBill ==
    /\ bills \in {<<StoredBill(n)>> : n \in StoredSuffixes}
    /\ payments = <<>>
    /\ orders = <<>>
    /\ tokens = <<>>
    /\ consultations = <<>>
    /\ medicines = <<>>
    /\ movements = <<>>
    /\ prescriptions = <<>>
    /\ beds = <<>>
    /\ admissions = <<>>
    /\ schedules = <<>>
    /\ req = [r \in Reqs |-> Idle]

SpecStoredBill == InitStoredBill /\ [][NextBillRace]_vars

\* C32: when the bill created last has a suffix that is not a number, number
\* generation fails and no bill is created: no request comes out of
\* generateBillNumber with a number, and the bills table does not grow.
C32_MalformedSuffixFails ==
    [][LET last == bills[Len(bills)].billNumber
       IN (\E i \in DOMAIN last : last[i] \notin 0..9)
          => /\ bills' = bills
             /\ \A r \in Reqs : req[r] = Idle => req'[r].op # "createBill"]_vars

(***************************************************************************)
(* Lab / radiology orders.  The two route files are the same code over two  *)
(* tables; an order row carries its kind and the two tables are the rows of *)
(* each kind.  The test catalog is reference data: tests 1..MaxTests exist  *)
(* and are active, test t costs t.                                          *)
(***************************************************************************)
MaxOrders == 3       \* order rows created
MaxWorked == 1       \* order rows created in a behaviour that also fulfils them
MaxTests == 2        \* tests in each catalog

Kinds == {"LAB", "RAD"}
TestIds == 1..MaxTests
TestPrice(t) == t

RowsOfKind(kind) == SelectSeq(orders, LAMBDA o : o.kind = kind)

\* generateLabOrderNumber / generateRadiologyOrderNumber
generateOrderNumber(kind) ==
    NextNumber([i \in DOMAIN RowsOfKind(kind) |-> RowsOfKind(kind)[i].orderNumber])

\* The tests arrays a create-order request may carry; MaxTests + 1 is the id
\* of no test.
TestsInputs == UNION {[1..n -> 1..(MaxTests + 1)] : n \in 1..MaxTests}

\* The tests of a request as it names them, in the catalog or not.
NamedTests(tests) == tests

\* findMany({ where: { id: { in: tests }, hospitalId, isActive: true } })
TestDetails(tests) ==
    LET found == Range(tests) \cap TestIds
    IN SelectSeq([t \in TestIds |-> t], LAMBDA t : t \in found)

\* POST /orders up to the generated order number; 400 when the catalog does
\* not return as many tests as the request names.
CreateOrderRead(r) ==
    /\ req[r] = Idle
    /\ Len(orders) + InFlight("createOrder") < MaxOrders
    /\ \E kind \in Kinds, tests \in TestsInputs :
         LET testDetails == TestDetails(tests)
         IN req' = [req EXCEPT ![r] =
                 IF Len(testDetails) # Len(tests)
                 THEN Replied("createOrder", 400)
                 ELSE
                 [op |-> "createOrder",
                  tests |-> tests,
                  row |-> [kind |-> kind,
                           orderNumber |-> generateOrderNumber(kind),
                           status |-> "PENDING_PAYMENT",
                           totalAmount |->
                               SumSeq([i \in DOMAIN testDetails |-> TestPrice(testDetails[i])]),
                           paidAmount |-> 0,
                           items |-> [i \in DOMAIN testDetails |->
                                        [testId |-> testDetails[i],
                                         price |-> TestPrice(testDetails[i]),
                                         status |-> "PENDING",
                                         result |-> FALSE]]]]]
    /\ UNCHANGED <<bills, payments, orders, opdVars, stockVars, ipdVars>>

\* prisma.labOrder.create / prisma.radiologyOrder.create: the order tables have
\* no unique index on orderNumber.
CreateOrderWrite(r) ==
    /\ req[r].op = "createOrder"
    /\ orders' = Append(orders, req[r].row)
    /\ req' = [req EXCEPT ![r] = Idle]
    /\ UNCHANGED <<billingVars, opdVars, stockVars, ipdVars>>

LabValidStatuses ==
    {"PENDING_PAYMENT", "PAID", "SAMPLE_COLLECTED", "IN_PROGRESS", "COMPLETED", "CANCELLED"}
RadValidStatuses ==
    {"PENDING_PAYMENT", "PAID", "SCHEDULED", "IN_PROGRESS", "COMPLETED", "CANCELLED"}
ValidStatuses(kind) == IF kind = "LAB" THEN LabValidStatuses ELSE RadValidStatuses

\* PATCH /orders/:id/status: the order is looked up for existence and hospital
\* only; the status of the request is written whatever the row holds.
UpdateOrderStatus(o, status) ==
    /\ o \in DOMAIN orders
    /\ status \in ValidStatuses(orders[o].kind)
    /\ orders' = [orders EXCEPT ![o].status = status]
    /\ UNCHANGED <<billingVars, opdVars, stockVars, ipdVars, req>>

\* POST /results, the transaction body.  It runs at the database's default
\* isolation (read committed): its own writes are private until commit, and
\* the count of the order's items not COMPLETED sees the committed rows of the
\* other items.  A Result row already committed for the item violates the
\* unique index on the item id and the request fails.
EnterResultTx(r) ==
    /\ req[r] = Idle
    /\ \E o \in DOMAIN orders : \E i \in DOMAIN orders[o].items :
         /\ ~orders[o].items[i].result
         /\ LET pendingItems ==
                   Cardinality({j \in DOMAIN orders[o].items :
                                   j # i /\ orders[o].items[j].status # "COMPLETED"})
            IN req' = [req EXCEPT ![r] =
                   [op |-> "enterResult", order |-> o, item |-> i,
                    completeOrder |-> (pendingItems = 0)]]
    /\ UNCHANGED <<bills, payments, orders, opdVars, stockVars, ipdVars>>

\* The commit of the transaction; a Result row committed meanwhile for the
\* same item makes the insert fail and the transaction roll back.
EnterResultCommit(r) ==
    /\ req[r].op = "enterResult"
    /\ LET o == req[r].order
           i == req[r].item
       IN orders' =
            IF orders[o].items[i].result THEN orders
            ELSE [orders EXCEPT
                    ![o].items[i].result = TRUE,
                    ![o].items[i].status = "COMPLETED",
                    ![o].status = IF req[r].completeOrder THEN "COMPLETED" ELSE @]
    /\ req' = [req EXCEPT ![r] = Idle]
    /\ UNCHANGED <<billingVars, opdVars, stockVars, ipdVars>>

InitOrders == InitEmpty

\* The fulfilment of orders: orders are created, moved between statuses and
\* given results.  At most MaxWorked orders are created in a behaviour.
NextOrders ==
    \/ \E r \in Reqs :
        \/ Len(orders) + InFlight("createOrder") < MaxWorked /\ CreateOrderRead(r)
        \/ CreateOrderWrite(r)
        \/ EnterResultTx(r)
        \/ EnterResultCommit(r)
        \/ Respond(r)
    \/ \E o \in 1..MaxOrders, status \in LabValidStatuses \cup RadValidStatuses :
          UpdateOrderStatus(o, status)

SpecOrders == InitOrders /\ [][NextOrders]_vars

\* The numbering of orders: creation requests alone, running concurrently.
NextSeq ==
    \E r \in Reqs :
        \/ CreateOrderRead(r)
        \/ CreateOrderWrite(r)
        \/ Respond(r)

SpecSeq == InitOrders /\ [][NextSeq]_vars

(***************************************************************************)
(* Order claims.                                                            *)
(***************************************************************************)
\* C3: the records created by concurrent creation requests that draw from one
\* sequence scope carry distinct, strictly increasing identifiers.
C3_DistinctIncreasingNumbers ==
    \A i, j \in DOMAIN orders :
        (i < j /\ orders[i].kind = orders[j].kind)
        => ParseInt(orders[i].orderNumber) < ParseInt(orders[j].orderNumber)

AllItemsCompleted(o) ==
    \A i \in DOMAIN o.items : o.items[i].result /\ o.items[i].status = "COMPLETED"

\* C7: for any lab or radiology order, in every reachable state, status is
\* COMPLETED if and only if every item has a Result and item status COMPLETED.
C7_CompletedIffAllItemsCompleted ==
    \A o \in DOMAIN orders :
        (orders[o].status = "COMPLETED") <=> AllItemsCompleted(orders[o])

\* C8: no request fulfils an order that is PENDING_PAYMENT: such an order moves
\* to no fulfilment status and gets no result; it and its items stay as they
\* are until it is paid or cancelled.
C8_UnpaidOrderNotFulfilled ==
    [][\A o \in DOMAIN orders :
          orders[o].status = "PENDING_PAYMENT"
          => /\ orders'[o].status \in {"PENDING_PAYMENT", "PAID", "CANCELLED"}
             /\ orders'[o].items = orders[o].items]_vars

\* C18: when results for the last incomplete items of one order are
\* recorded by concurrent requests, the order is not left in another status
\* with all its items COMPLETED: the result that leaves every item with a
\* Result and COMPLETED also sets the order to COMPLETED.
C18_LastResultCompletesOrder ==
    [][\A o \in DOMAIN orders :
          (orders'[o].items # orders[o].items /\ AllItemsCompleted(orders'[o]))
          => orders'[o].status = "COMPLETED"]_vars

\* C19: under any sequence of status-update, result-entry and payment
\* requests an order's status only changes along PENDING_PAYMENT -> PAID ->
\* (SAMPLE_COLLECTED | SCHEDULED) -> IN_PROGRESS -> COMPLETED, or to
\* CANCELLED from a status that is neither COMPLETED nor CANCELLED; a
\* COMPLETED or CANCELLED order never changes status again.
C19_OrderStatusPath ==
    [][\A o \in DOMAIN orders :
          LET from == orders[o].status
              to == orders'[o].status
          IN to # from
             => \/ from = "PENDING_PAYMENT" /\ to = "PAID"
                \/ from = "PAID" /\ to \in {"SAMPLE_COLLECTED", "SCHEDULED"}
                \/ from \in {"SAMPLE_COLLECTED", "SCHEDULED"} /\ to = "IN_PROGRESS"
                \/ from = "IN_PROGRESS" /\ to = "COMPLETED"
                \/ from \notin {"COMPLETED", "CANCELLED"} /\ to = "CANCELLED"]_vars

\* C28: every newly created lab or radiology order has status
\* PENDING_PAYMENT, paidAmount 0, one item per test of the request with the
\* catalog price of the test on the item, and totalAmount equal to the sum of
\* the item prices; the tests of its request are all in the catalog, and a
\* request answered 400 creates nothing.
C28_NewOrderAsRequested ==
    [][\A r \in Reqs :
          /\ (req[r].op = "createOrder" /\ req'[r] # req[r])
                => /\ Len(orders') = Len(orders) + 1
                   /\ LET order == orders'[Len(orders')]
                          tests == req[r].tests
                      IN /\ order.status = "PENDING_PAYMENT"
                         /\ order.paidAmount = 0
                         /\ Range(tests) \subseteq TestIds
                         /\ Len(order.items) = Len(tests)
                         /\ \A t \in Range(tests) :
                               \E i \in DOMAIN order.items : order.items[i].testId = t
                         /\ \A i \in DOMAIN order.items :
                               order.items[i].price = TestPrice(order.items[i].testId)
                         /\ order.totalAmount =
                               SumSeq([i \in DOMAIN order.items |-> order.items[i].price])
          /\ (req[r] = Idle /\ req'[r] = Replied("createOrder", 400))
                => UNCHANGED orders]_vars

\* An order for both tests of the catalog has been created and a request
\* naming a test outside the catalog has been answered 400.
C28_Witness ==
    /\ \E o \in DOMAIN orders :
          Len(orders[o].items) = MaxTests /\ orders[o].totalAmount > MaxTests
    /\ \E r \in Reqs : req[r] = Replied("createOrder", 400)

(***************************************************************************)
(* Payments on a bill whose linked orders are worked on meanwhile: the      *)
(* billing requests together with PATCH /orders/:id/status.                 *)
(***************************************************************************)
NextPaidOrders ==
    \/ \E r \in Reqs :
        \/ Len(bills) + InFlight("createBill") < MaxBills /\ CreateBillRead(r)
        \/ CreateBillWrite(r)
        \/ RecordPaymentRead(r)
        \/ RecordPaymentTx(r)
        \/ Respond(r)
    \/ \E o \in 1..MaxOrders, status \in LabValidStatuses \cup RadValidStatuses :
          UpdateOrderStatus(o, status)

SpecPaidOrders == InitBilling /\ [][NextPaidOrders]_vars

MaxTokens == 2           \* OpdToken rows created
MaxPatients == 2
MaxDoctors == 2
MaxPriority == 1         \* largest priority of a create-token request
MaxPatientsPerDay == 2   \* largest Doctor.maxPatientsPerDay
WaitPerPatient == 15

\* doctor.maxPatientsPerDay
maxPatientsPerDay(doctorId) == IF doctorId = 1 THEN 1 ELSE MaxPatientsPerDay

ActiveStatuses == {"WAITING", "CALLED", "IN_CONSULTATION"}
TokenStatuses == {"WAITING", "CALLED", "IN_CONSULTATION", "COMPLETED", "CANCELLED", "NO_SHOW"}

\* generateOpdToken
generateOpdToken == NextNumber([i \in DOMAIN tokens |-> tokens[i].tokenNumber])

\* POST /tokens up to the create: the lookups, the two guards, the token
\* number and the wait estimate, read one after the other.
CreateTokenRead(r) ==
    /\ req[r] = Idle
    /\ Len(tokens) + InFlight("createToken") < MaxTokens
    /\ \E patientId \in 1..MaxPatients, doctorId \in 1..MaxDoctors, priority \in 0..MaxPriority :
         LET existingToken ==
                 \E t \in DOMAIN tokens :
                     /\ tokens[t].patientId = patientId
                     /\ tokens[t].doctorId = doctorId
                     /\ tokens[t].status \in ActiveStatuses
             todayTokenCount ==
                 Cardinality({t \in DOMAIN tokens :
                     /\ tokens[t].doctorId = doctorId
                     /\ tokens[t].status \notin {"CANCELLED", "NO_SHOW"}})
             waitingCount ==
                 Cardinality({t \in DOMAIN tokens :
                     tokens[t].doctorId = doctorId /\ tokens[t].status = "WAITING"})
         IN /\ ~existingToken
            /\ ~(todayTokenCount >= maxPatientsPerDay(doctorId))
            /\ req' = [req EXCEPT ![r] =
                 [op |-> "createToken",
                  row |-> [patientId |-> patientId,
                           doctorId |-> doctorId,
                           tokenNumber |-> generateOpdToken,
                           status |-> "WAITING",
                           priority |-> priority,
                           estimatedWait |-> waitingCount * WaitPerPatient]]]
    /\ UNCHANGED <<billingVars, orders, opdVars, stockVars, ipdVars>>

\* prisma.opdToken.create.  The unique index is on (hospitalId, tokenNumber,
\* tokenDate) and tokenDate is the millisecond of the create: a token with a
\* number already in the table is refused only when it is created in the same
\* millisecond as that row.
CreateTokenWrite(r) ==
    /\ req[r].op = "createToken"
    /\ \E sameInstant \in BOOLEAN :
         LET taken == \E t \in DOMAIN tokens : tokens[t].tokenNumber = req[r].row.tokenNumber
         IN /\ sameInstant => taken
            /\ tokens' = IF sameInstant THEN tokens ELSE Append(tokens, req[r].row)
    /\ req' = [req EXCEPT ![r] = Idle]
    /\ UNCHANGED <<billingVars, orders, consultations, stockVars, ipdVars>>

\* PATCH /tokens/:id/status: the token is looked up for existence and
\* hospital only; the status of the request is written whatever the row holds.
UpdateTokenStatus(t, status) ==
    /\ t \in DOMAIN tokens
    /\ status \in TokenStatuses
    /\ tokens' = [tokens EXCEPT ![t].status = status]
    /\ UNCHANGED <<billingVars, orders, consultations, stockVars, ipdVars, req>>

\* Text order of two identifiers with one prefix: the order of their suffixes
\* compared character by character.
RECURSIVE TextLess(_, _)
TextLess(a, b) ==
    IF a = <<>> THEN b # <<>>
    ELSE IF b = <<>> THEN FALSE
    ELSE IF Head(a) # Head(b) THEN Head(a) < Head(b)
    ELSE TextLess(Tail(a), Tail(b))

\* orderBy: [{ priority: 'desc' }, { tokenNumber: 'asc' }]
ComesBefore(a, b) ==
    \/ a.priority > b.priority
    \/ a.priority = b.priority /\ TextLess(a.tokenNumber, b.tokenNumber)

Waiting(doctorId) ==
    {t \in DOMAIN tokens : tokens[t].doctorId = doctorId /\ tokens[t].status = "WAITING"}

\* findFirst: a WAITING token of the doctor that no other comes before.
IsNextToken(t, doctorId) ==
    /\ t \in Waiting(doctorId)
    /\ \A u \in Waiting(doctorId) : ~ComesBefore(tokens[u], tokens[t])

\* POST /call-next, the findFirst.  With no WAITING token the handler answers
\* { token: null } and writes nothing.
CallNextRead(r) ==
    /\ req[r] = Idle
    /\ \E doctorId \in 1..MaxDoctors :
         IF Waiting(doctorId) = {}
         THEN req' = [req EXCEPT ![r] = Replied("callNext", 200)]
         ELSE \E t \in DOMAIN tokens :
                /\ IsNextToken(t, doctorId)
                /\ req' = [req EXCEPT ![r] =
                       [op |-> "callNext", doctorId |-> doctorId, id |-> t]]
    /\ UNCHANGED <<billingVars, orders, opdVars, stockVars, ipdVars>>

\* POST /call-next, the update by id; the handler then returns the token.
CallNextWrite(r) ==
    /\ req[r].op = "callNext"
    /\ tokens' = [tokens EXCEPT ![req[r].id].status = "CALLED"]
    /\ req' = [req EXCEPT ![r] = Idle]
    /\ UNCHANGED <<billingVars, orders, consultations, stockVars, ipdVars>>

MaxConsultations == 1    \* Consultation rows created
MaxStarts == 2           \* start-consultation requests, made or in flight

generateConsultationNumber ==
    NextNumber([i \in DOMAIN consultations |-> consultations[i].consultationNumber])

\* POST /start (consultations) up to the transaction: the token lookup, which
\* does not load the token's consultation, and the consultation number.
StartConsultationRead(r) ==
    /\ req[r] = Idle
    /\ Len(consultations) + InFlight("startConsultation") < MaxStarts
    /\ \E t \in DOMAIN tokens :
         req' = [req EXCEPT ![r] =
             [op |-> "startConsultation", opdTokenId |-> t,
              consultationNumber |-> generateConsultationNumber]]
    /\ UNCHANGED <<billingVars, orders, opdVars, stockVars, ipdVars>>

\* POST /start, the transaction: the consultation row and the token's status.
\* The create fails, and the transaction with it, when the unique index on
\* opdTokenId finds a consultation of the token or when the database refuses
\* the row (its doctorId is the doctor's user id).
StartConsultationTx(r) ==
    /\ req[r].op = "startConsultation"
    /\ \E refused \in BOOLEAN :
         IF refused \/ \E c \in DOMAIN consultations :
                          consultations[c].opdTokenId = req[r].opdTokenId
         THEN /\ UNCHANGED <<tokens, consultations>>
              /\ req' = [req EXCEPT ![r] = Replied("startConsultation", 500)]
         ELSE /\ consultations' = Append(consultations,
                    [opdTokenId |-> req[r].opdTokenId,
                     consultationNumber |-> req[r].consultationNumber,
                     status |-> "IN_PROGRESS"])
              /\ tokens' = [tokens EXCEPT ![req[r].opdTokenId].status = "IN_CONSULTATION"]
              /\ req' = [req EXCEPT ![r] = Idle]
    /\ UNCHANGED <<billingVars, orders, stockVars, ipdVars>>

\* POST /:id/complete (consultations): the lookup, then the transaction that
\* sets the consultation and its token to COMPLETED.  The token id is fixed
\* at the create, so the two are one step.
CompleteConsultation(c) ==
    /\ c \in DOMAIN consultations
    /\ consultations' = [consultations EXCEPT ![c].status = "COMPLETED"]
    /\ tokens' = [tokens EXCEPT ![consultations[c].opdTokenId].status = "COMPLETED"]
    /\ UNCHANGED <<billingVars, orders, stockVars, ipdVars, req>>

NextOpd ==
    \/ \E r \in Reqs :
        \/ CreateTokenRead(r)
        \/ CreateTokenWrite(r)
        \/ CallNextRead(r)
        \/ CallNextWrite(r)
        \/ /\ Len(consultations) + InFlight("startConsultation") < MaxConsultations
           /\ StartConsultationRead(r)
        \/ StartConsultationTx(r)
        \/ Respond(r)
    \/ \E c \in 1..MaxConsultations : CompleteConsultation(c)
    \/ \E t \in 1..MaxTokens, status \in TokenStatuses : UpdateTokenStatus(t, status)

SpecOpd == InitEmpty /\ [][NextOpd]_vars

\* A busy day: the token created last carries the largest number that fits
\* PadWidth digits and is still WAITING.  The day's earlier tokens are of
\* doctors other than 1..MaxDoctors and are not kept; generateOpdToken reads
\* only the row created last.
InitBusyDay ==
    /\ bills = <<>>
    /\ payments = <<>>
    /\ orders = <<>>
    /\ \E patientId \in 1..MaxPatients, doctorId \in 1..MaxDoctors, priority \in 0..MaxPriority :
         tokens = <<[patientId |-> patientId,
                     doctorId |-> doctorId,
                     tokenNumber |-> Digits(10^PadWidth - 1),
                     status |-> "WAITING",
                     priority |-> priority,
                     estimatedWait |-> 0]>>
    /\ consultations = <<>>
    /\ medicines = <<>>
    /\ movements = <<>>
    /\ prescriptions = <<>>
    /\ beds = <<>>
    /\ admissions = <<>>
    /\ schedules = <<>>
    /\ req = [r \in Reqs |-> Idle]

SpecOpdBusy == InitBusyDay /\ [][NextOpd]_vars

\* Consultations of the busy day's token: start requests, one after the
\* other or together, and the completion of the consultation.
NextConsult ==
    \/ \E r \in Reqs :
        \/ StartConsultationRead(r)
        \/ StartConsultationTx(r)
        \/ Respond(r)
    \/ \E c \in 1..MaxStarts : CompleteConsultation(c)

SpecConsult == InitBusyDay /\ [][NextConsult]_vars

(***************************************************************************)
(* OPD claims.                                                              *)
(***************************************************************************)
\* C4: concurrent call-next requests for one doctor who has at least as many
\* WAITING tokens call distinct tokens: no token is handed to two call-next
\* requests that are in flight together.
C4_CallNextExclusive ==
    \A r1, r2 \in Reqs :
        (/\ r1 # r2
         /\ req[r1].op = "callNext" /\ req[r2].op = "callNext"
         /\ req[r1].doctorId = req[r2].doctorId
         /\ Cardinality(Waiting(req[r1].doctorId)) >= 2)
        => req[r1].id # req[r2].id

\* C20: under any sequence of status-update, call-next, start-consultation
\* and complete-consultation requests a token's status only changes along
\* WAITING -> CALLED -> IN_CONSULTATION -> COMPLETED, or from WAITING or
\* CALLED to CANCELLED or NO_SHOW; a COMPLETED, CANCELLED or NO_SHOW token
\* never changes status again.
C20_TokenStatusPath ==
    [][\A t \in DOMAIN tokens :
          LET from == tokens[t].status
              to == tokens'[t].status
          IN to # from
             => \/ from = "WAITING" /\ to = "CALLED"
                \/ from = "CALLED" /\ to = "IN_CONSULTATION"
                \/ from = "IN_CONSULTATION" /\ to = "COMPLETED"
                \/ from \in {"WAITING", "CALLED"} /\ to \in {"CANCELLED", "NO_SHOW"}]_vars

\* C23: call-next for a doctor selects, among the doctor's WAITING tokens of
\* today, one of the highest priority and, among those, of the lowest token
\* number; with no WAITING token it changes no token.
C23_CallNextSelectsFirst ==
    [][\A r \in Reqs :
          /\ (req[r] = Idle /\ req'[r].op = "callNext")
                => LET t == req'[r].id
                       waiting == Waiting(req'[r].doctorId)
                   IN /\ t \in waiting
                      /\ \A u \in waiting :
                            /\ tokens[u].priority <= tokens[t].priority
                            /\ tokens[u].priority = tokens[t].priority
                                  => ParseInt(tokens[t].tokenNumber)
                                       <= ParseInt(tokens[u].tokenNumber)
          /\ (req[r] = Idle /\ req'[r] = Replied("callNext", 200))
                => UNCHANGED tokens]_vars

\* C21: no patient holds two active (WAITING, CALLED or IN_CONSULTATION)
\* tokens with the same doctor on the same date.
C21_OneActiveTokenPerDoctor ==
    \A t, u \in DOMAIN tokens :
        (/\ t # u
         /\ tokens[t].patientId = tokens[u].patientId
         /\ tokens[t].doctorId = tokens[u].doctorId
         /\ tokens[t].status \in ActiveStatuses)
        => tokens[u].status \notin ActiveStatuses

\* C22: for every doctor the number of the day's tokens that are not
\* CANCELLED or NO_SHOW never exceeds the doctor's maxPatientsPerDay.
C22_WithinDailyLimit ==
    \A doctorId \in 1..MaxDoctors :
        Cardinality({t \in DOMAIN tokens :
            /\ tokens[t].doctorId = doctorId
            /\ tokens[t].status \notin {"CANCELLED", "NO_SHOW"}})
          <= maxPatientsPerDay(doctorId)

\* C40: the order of call-next and of the queue listing agrees with the
\* order of creation: of two tokens of the same priority, the one created
\* later never sorts before the one created earlier, also past OPD999.
C40_QueueOrderIsCreationOrder ==
    \A i, j \in DOMAIN tokens :
        (i < j /\ tokens[i].priority = tokens[j].priority)
        => ~ComesBefore(tokens[j], tokens[i])

\* C35: a token has at most one consultation; a start-consultation request
\* for a token that already has a consultation does not get past the check
\* that answers 'Consultation already started for this token', and a request
\* that ends changes the token and the consultations only by creating the
\* consultation and moving the token to IN_CONSULTATION in one step.
C35_OneConsultationPerToken ==
    [][/\ \A c, e \in DOMAIN consultations' :
             consultations'[c].opdTokenId = consultations'[e].opdTokenId => c = e
       /\ \A r \in Reqs :
             /\ req[r] = Idle /\ req'[r].op = "startConsultation"
                => ~\E c \in DOMAIN consultations :
                       consultations[c].opdTokenId = req'[r].opdTokenId
             /\ req[r].op = "startConsultation" /\ req'[r] # req[r]
                => \/ UNCHANGED <<tokens, consultations>>
                   \/ /\ Len(consultations') = Len(consultations) + 1
                      /\ tokens'[req[r].opdTokenId].status = "IN_CONSULTATION"]_vars

(***************************************************************************)
(* Sequence numbers under creations that do not overlap: a creation starts  *)
(* when no other creation is in flight.  Bills, orders and tokens are        *)
(* cancelled in between.  A behaviour issues numbers of one table only.      *)
(***************************************************************************)
NoCreationInFlight ==
    \A r \in Reqs : req[r].op \notin {"createBill", "createOrder", "createToken"}

NextSerial ==
    \/ \E r \in Reqs :
        \/ /\ NoCreationInFlight
           /\ orders = <<>> /\ tokens = <<>>
           /\ CreateBillRead(r)
        \/ CreateBillWrite(r)
        \/ CancelBillRead(r)
        \/ CancelBillWrite(r)
        \/ /\ NoCreationInFlight
           /\ bills = <<>> /\ tokens = <<>>
           /\ CreateOrderRead(r)
        \/ CreateOrderWrite(r)
        \/ /\ NoCreationInFlight
           /\ bills = <<>> /\ orders = <<>>
           /\ CreateTokenRead(r)
        \/ CreateTokenWrite(r)
        \/ Respond(r)
    \/ \E o \in 1..MaxOrders : UpdateOrderStatus(o, "CANCELLED")
    \/ \E t \in 1..MaxTokens : UpdateTokenStatus(t, "CANCELLED")

SpecSerial == InitEmpty /\ [][NextSerial]_vars

\* C29: within one sequence kind the identifiers issued by creations that do
\* not overlap are strictly increasing in creation order, hence never
\* reused, whether or not earlier bills, orders or tokens were cancelled.
C29_SerialNumbersIncrease ==
    /\ \A i, j \in DOMAIN bills :
          i < j => ParseInt(bills[i].billNumber) < ParseInt(bills[j].billNumber)
    /\ \A i, j \in DOMAIN tokens :
          i < j => ParseInt(tokens[i].tokenNumber) < ParseInt(tokens[j].tokenNumber)
    /\ \A i, j \in DOMAIN orders :
          (i < j /\ orders[i].kind = orders[j].kind)
          => ParseInt(orders[i].orderNumber) < ParseInt(orders[j].orderNumber)

\* Three bills have been issued, the first two cancelled.
C29_Witness ==
    /\ Len(bills) = MaxIssued
    /\ \A b \in DOMAIN bills : b < MaxIssued => bills[b].status = "CANCELLED"

(***************************************************************************)
(* Pharmacy: medicines, the stock ledger and dispensing.                    *)
(***************************************************************************)
MaxMedicines == 1       \* Medicine rows created
MaxStock == 2           \* largest stock quantity a request asks for or reaches
MaxQty == 2             \* largest quantity of a movement, prescription item or dispense
MaxMovements == 2       \* MedicineStockMovement rows created
MaxPrescriptions == 1   \* Prescription rows created
MaxRxItems == 2         \* items of one prescription, and of one dispense request

MovementTypes == {"PURCHASE", "SALE", "RETURN", "ADJUSTMENT", "EXPIRED", "TRANSFER"}

\* The movement rows that requests in flight are still to write.
MovementsToCome(r) ==
    CASE req[r].op = "createMedicine" -> 1
      [] req[r].op = "stockMovement" -> 1
      [] req[r].op = "dispense" -> Len(req[r].sales)
      [] OTHER -> 0

RoomForMovements(n) ==
    Len(movements) + SumSeq([r \in Reqs |-> MovementsToCome(r)]) + n <= MaxMovements

\* POST /medicines, prisma.medicine.create with stockQuantity || 0.  The
\* movement of the initial stock is a second, separate write.
CreateMedicineRow(r) ==
    /\ req[r] = Idle
    /\ Len(medicines) < MaxMedicines
    /\ \E stockQuantity \in 0..MaxStock :
         /\ stockQuantity > 0 => RoomForMovements(1)
         /\ medicines' = Append(medicines, [stockQuantity |-> stockQuantity])
         /\ req' = [req EXCEPT ![r] =
                IF stockQuantity > 0
                THEN [op |-> "createMedicine", id |-> Len(medicines) + 1,
                      stockQuantity |-> stockQuantity]
                ELSE Idle]
    /\ UNCHANGED <<billingVars, orders, opdVars, movements, prescriptions, ipdVars>>

\* POST /medicines, prisma.medicineStockMovement.create ('Initial Stock').
CreateMedicineMovement(r) ==
    /\ req[r].op = "createMedicine"
    /\ movements' = Append(movements,
          [medicineId |-> req[r].id, movementType |-> "PURCHASE",
           quantity |-> req[r].stockQuantity])
    /\ req' = [req EXCEPT ![r] = Idle]
    /\ UNCHANGED <<billingVars, orders, opdVars, medicines, prescriptions, ipdVars>>

\* PUT /medicines/:id with a body that carries stockQuantity: every field of
\* the body but id, hospitalId, medicineCode and createdAt is written.
UpdateMedicine(m, stockQuantity) ==
    /\ m \in DOMAIN medicines
    /\ medicines' = [medicines EXCEPT ![m].stockQuantity = stockQuantity]
    /\ UNCHANGED <<billingVars, orders, opdVars, movements, prescriptions, ipdVars, req>>

\* The stock a movement of qty leads to from stock, or -1 for 'Insufficient stock'.
NewStock(stock, movementType, qty) ==
    IF movementType \in {"PURCHASE", "RETURN"} THEN stock + qty
    ELSE IF movementType \in {"SALE", "EXPIRED", "TRANSFER"}
         THEN (IF stock < qty THEN -1 ELSE stock - qty)
    ELSE IF movementType = "ADJUSTMENT" THEN qty
    ELSE stock

\* POST /medicines/:id/stock up to the transaction: lookup and new stock.
StockMovementRead(r) ==
    /\ req[r] = Idle
    /\ RoomForMovements(1)
    /\ \E m \in DOMAIN medicines, movementType \in MovementTypes, qty \in 1..MaxQty :
         LET newStock == NewStock(medicines[m].stockQuantity, movementType, qty)
         IN /\ newStock >= 0
            /\ newStock <= MaxStock
            /\ req' = [req EXCEPT ![r] =
                 [op |-> "stockMovement", id |-> m, movementType |-> movementType,
                  qty |-> qty, newStock |-> newStock]]
    /\ UNCHANGED <<billingVars, orders, opdVars, stockVars, ipdVars>>

\* POST /medicines/:id/stock, the transaction: movement row and stock update.
StockMovementTx(r) ==
    /\ req[r].op = "stockMovement"
    /\ movements' = Append(movements,
          [medicineId |-> req[r].id, movementType |-> req[r].movementType,
           quantity |-> req[r].qty])
    /\ medicines' = [medicines EXCEPT ![req[r].id].stockQuantity = req[r].newStock]
    /\ req' = [req EXCEPT ![r] = Idle]
    /\ UNCHANGED <<billingVars, orders, opdVars, prescriptions, ipdVars>>

\* The medicines arrays an add-prescription request may carry.
RxItemsInputs ==
    UNION {[1..n -> [medicineId : DOMAIN medicines, quantity : 1..MaxQty]] : n \in 1..MaxRxItems}

generatePrescriptionNumber ==
    NextNumber([i \in DOMAIN prescriptions |-> prescriptions[i].prescriptionNumber])

\* POST /:id/prescriptions (consultations) up to the prescription number.
AddPrescriptionRead(r) ==
    /\ req[r] = Idle
    /\ Len(prescriptions) + InFlight("addPrescription") < MaxPrescriptions
    /\ \E meds \in RxItemsInputs :
         req' = [req EXCEPT ![r] =
             [op |-> "addPrescription",
              row |-> [prescriptionNumber |-> generatePrescriptionNumber,
                       status |-> "PENDING",
                       items |-> [i \in DOMAIN meds |->
                                    [medicineId |-> meds[i].medicineId,
                                     quantity |-> meds[i].quantity,
                                     dispensedQty |-> 0]]]]]
    /\ UNCHANGED <<billingVars, orders, opdVars, stockVars, ipdVars>>

\* POST /:id/prescriptions, prisma.prescription.create.
AddPrescriptionWrite(r) ==
    /\ req[r].op = "addPrescription"
    /\ prescriptions' = Append(prescriptions, req[r].row)
    /\ req' = [req EXCEPT ![r] = Idle]
    /\ UNCHANGED <<billingVars, orders, opdVars, medicines, movements, ipdVars>>

\* The items arrays a dispense request may carry; item id 0 names no item.
DispenseItemInputs ==
    [prescriptionItemId : 1..MaxRxItems, quantity : 1..MaxQty]
        \cup {[prescriptionItemId |-> 0, quantity |-> 1]}

DispenseInputs == UNION {[1..n -> DispenseItemInputs] : n \in 1..MaxRxItems}

\* What the transaction has already taken from medicine m (its own writes).
TakenBy(sales, m) ==
    SumSeq([i \in DOMAIN sales |->
              IF sales[i].medicineId = m THEN sales[i].quantity ELSE 0])

\* The loop with an item that finds too little stock passed over.
RECURSIVE DispenseLoopSkipping(_, _, _, _)
DispenseLoopSkipping(rxItems, items, i, sales) ==
    IF i > Len(items) THEN [ok |-> TRUE, sales |-> sales]
    ELSE IF items[i].prescriptionItemId \notin DOMAIN rxItems
         THEN DispenseLoopSkipping(rxItems, items, i + 1, sales)
    ELSE LET medicineId == rxItems[items[i].prescriptionItemId].medicineId
             stock == medicines[medicineId].stockQuantity - TakenBy(sales, medicineId)
         IN IF stock < items[i].quantity
            THEN DispenseLoopSkipping(rxItems, items, i + 1, sales)
            ELSE DispenseLoopSkipping(rxItems, items, i + 1,
                    Append(sales, [prescriptionItemId |-> items[i].prescriptionItemId,
                                   medicineId |-> medicineId,
                                   quantity |-> items[i].quantity]))

\* POST /dispense, the loop over the request's items from item i on: the
\* sales made, or ok = FALSE once an item finds too little stock.
RECURSIVE DispenseLoop(_, _, _, _)
DispenseLoop(rxItems, items, i, sales) ==
    IF i > Len(items) THEN [ok |-> TRUE, sales |-> sales]
    ELSE IF items[i].prescriptionItemId \notin DOMAIN rxItems
         THEN DispenseLoop(rxItems, items, i + 1, sales)
    ELSE LET medicineId == rxItems[items[i].prescriptionItemId].medicineId
             stock == medicines[medicineId].stockQuantity - TakenBy(sales, medicineId)
         IN IF stock < items[i].quantity
            THEN [ok |-> FALSE, sales |-> <<>>]
            ELSE DispenseLoop(rxItems, items, i + 1,
                    Append(sales, [prescriptionItemId |-> items[i].prescriptionItemId,
                                   medicineId |-> medicineId,
                                   quantity |-> items[i].quantity]))

\* POST /dispense: prescription lookup and the transaction's reads and checks.
\* A throw rolls the transaction back before any of its writes is visible and
\* is answered with 500.  A transaction that makes a sale updates the medicine
\* row and so runs its findMany of the prescription's items when no other
\* dispense of the medicine is uncommitted; one that makes no sale (every
\* item of the request names no item of the prescription) holds no row and
\* its findMany can run before another dispense commits: updatedItems is what
\* it returns then.
DispenseTx(r) ==
    /\ req[r] = Idle
    /\ \E p \in DOMAIN prescriptions, items \in DispenseInputs :
         LET done == DispenseLoop(prescriptions[p].items, items, 1, <<>>)
         IN /\ RoomForMovements(Len(done.sales))
            /\ req' = [req EXCEPT ![r] =
                 IF done.ok
                 THEN [op |-> "dispense", id |-> p, items |-> items,
                       sales |-> done.sales,
                       updatedItems |-> IF done.sales = <<>>
                                        THEN prescriptions[p].items
                                        ELSE <<>>]
                 ELSE Replied("dispense", 500)]
    /\ UNCHANGED <<billingVars, orders, opdVars, stockVars, ipdVars>>

\* dispensedQty of the prescription's items after the increments of sales.
DispensedItems(rxItems, sales) ==
    [i \in DOMAIN rxItems |->
        [rxItems[i] EXCEPT !.dispensedQty =
            @ + SumSeq([k \in DOMAIN sales |->
                          IF sales[k].prescriptionItemId = i
                          THEN sales[k].quantity ELSE 0])]]

PrescriptionStatus(rxItems) ==
    IF \A i \in DOMAIN rxItems : rxItems[i].dispensedQty >= rxItems[i].quantity
    THEN "DISPENSED"
    ELSE IF \E i \in DOMAIN rxItems : rxItems[i].dispensedQty > 0
         THEN "PARTIALLY_DISPENSED"
    ELSE "PENDING"

\* POST /dispense, the end of the transaction: its increments, decrements
\* and SALE movements take effect together, with the status derived from the
\* items its findMany returned.
DispenseCommit(r) ==
    /\ req[r].op = "dispense"
    /\ LET sales == req[r].sales
           p == req[r].id
           items == DispensedItems(prescriptions[p].items, sales)
           updatedItems == IF sales = <<>> THEN req[r].updatedItems ELSE items
       IN /\ medicines' = [m \in DOMAIN medicines |->
                 [medicines[m] EXCEPT !.stockQuantity = @ - TakenBy(sales, m)]]
          /\ movements' = movements \o
                 [k \in DOMAIN sales |->
                     [medicineId |-> sales[k].medicineId,
                      movementType |-> "SALE",
                      quantity |-> sales[k].quantity]]
          /\ prescriptions' = [prescriptions EXCEPT
                 ![p].items = items, ![p].status = PrescriptionStatus(updatedItems)]
    /\ req' = [req EXCEPT ![r] = Idle]
    /\ UNCHANGED <<billingVars, orders, opdVars, ipdVars>>

NextStock ==
    \/ \E r \in Reqs : CreateMedicineRow(r)
    \/ \E r \in Reqs : CreateMedicineMovement(r)
    \/ \E m \in 1..MaxMedicines, stockQuantity \in 0..MaxStock :
          UpdateMedicine(m, stockQuantity)
    \/ \E r \in Reqs : StockMovementRead(r)
    \/ \E r \in Reqs : StockMovementTx(r)
    \/ \E r \in Reqs : AddPrescriptionRead(r)
    \/ \E r \in Reqs : AddPrescriptionWrite(r)
    \/ \E r \in Reqs : DispenseTx(r)
    \/ \E r \in Reqs : DispenseCommit(r)
    \/ \E r \in Reqs : Respond(r)

SpecStock == InitEmpty /\ [][NextStock]_vars

\* The stock the ledger of medicine m stands for: PURCHASE and RETURN add,
\* SALE, EXPIRED and TRANSFER take away, ADJUSTMENT sets the level.
RECURSIVE LedgerUpTo(_, _)
LedgerUpTo(m, n) ==
    IF n = 0 THEN 0
    ELSE LET before == LedgerUpTo(m, n - 1)
             mv == movements[n]
         IN IF mv.medicineId # m THEN before
            ELSE IF mv.movementType \in {"PURCHASE", "RETURN"} THEN before + mv.quantity
            ELSE IF mv.movementType = "ADJUSTMENT" THEN mv.quantity
            ELSE before - mv.quantity

LedgerBalance(m) == LedgerUpTo(m, Len(movements))

\* C5: for every Medicine, in every reachable state of creation, update,
\* stock-movement and dispense requests in any interleaving, stockQuantity
\* equals the signed sum of the medicine's stock movements.
C5_StockEqualsLedger ==
    \A m \in DOMAIN medicines : medicines[m].stockQuantity = LedgerBalance(m)

\* C14: stockQuantity of every Medicine is >= 0 in every reachable state:
\* a stock-decreasing movement or a dispense that would take the stock below
\* zero is rejected, also when several run concurrently on one medicine.
C14_StockNeverNegative ==
    \A m \in DOMAIN medicines : medicines[m].stockQuantity >= 0

\* C27: a stock movement of quantity q applied to a medicine with stock s
\* leaves stock s + q for PURCHASE and RETURN, s - q for SALE, EXPIRED and
\* TRANSFER, which are applied only when s >= q, and q for ADJUSTMENT, and
\* writes its movement record in the same step.
C27_MovementYieldsNewStock ==
    [][\A r \in Reqs :
          (req[r].op = "stockMovement" /\ req'[r] # req[r])
          => LET s == medicines[req[r].id].stockQuantity
                 q == req[r].qty
                 newStock == medicines'[req[r].id].stockQuantity
             IN /\ req[r].movementType \in {"PURCHASE", "RETURN"} => newStock = s + q
                /\ req[r].movementType \in {"SALE", "EXPIRED", "TRANSFER"}
                      => s >= q /\ newStock = s - q
                /\ req[r].movementType = "ADJUSTMENT" => newStock = q
                /\ Len(movements') = Len(movements) + 1]_vars

\* C25: after every dispense the prescription's status is DISPENSED iff
\* every item has dispensedQty >= quantity, PARTIALLY_DISPENSED iff not every
\* item is done and at least one has dispensedQty > 0, and PENDING otherwise.
C25_StatusFollowsItems ==
    [][\A r \in Reqs :
          (req[r].op = "dispense" /\ req'[r] # req[r])
          => LET rx == prescriptions'[req[r].id]
                 allDone == \A i \in DOMAIN rx.items :
                                rx.items[i].dispensedQty >= rx.items[i].quantity
                 someGiven == \E i \in DOMAIN rx.items : rx.items[i].dispensedQty > 0
             IN /\ rx.status = "DISPENSED" <=> allDone
                /\ rx.status = "PARTIALLY_DISPENSED" <=> (~allDone /\ someGiven)
                /\ rx.status = "PENDING" <=> (~allDone /\ ~someGiven)]_vars

\* C26: for every PrescriptionItem, in every reachable state,
\* 0 <= dispensedQty <= quantity.
C26_DispensedWithinPrescribed ==
    \A p \in DOMAIN prescriptions : \A i \in DOMAIN prescriptions[p].items :
        /\ 0 <= prescriptions[p].items[i].dispensedQty
        /\ prescriptions[p].items[i].dispensedQty <= prescriptions[p].items[i].quantity

\* The dispense request items on prescription p names a prescription item
\* whose medicine has less stock than the quantity asked for.
AsksMoreThanStock(p, items) ==
    \E i \in DOMAIN items :
        LET rxItems == prescriptions[p].items
        IN /\ items[i].prescriptionItemId \in DOMAIN rxItems
           /\ medicines[rxItems[items[i].prescriptionItemId].medicineId].stockQuantity
                 < items[i].quantity

\* C15: a dispense request for quantity q against a prescription item whose
\* medicine has stockQuantity < q is rejected as a whole: no request that
\* asks more than the stock goes on to dispense, and the rejection leaves the
\* stock of every medicine, the dispensedQty of every prescription item, the
\* prescription status and the stock movements unchanged.
C15_ShortDispenseRejected ==
    [][\A r \in Reqs :
          /\ (req[r] = Idle /\ req'[r].op = "dispense")
                => ~AsksMoreThanStock(req'[r].id, req'[r].items)
          /\ (req[r] = Idle /\ req'[r] = Replied("dispense", 500))
                => UNCHANGED <<medicines, movements, prescriptions>>]_vars

\* A dispense has been rejected while a prescription of two items exists
\* and some medicine is in stock.
C15_Witness ==
    \E r \in Reqs :
        /\ req[r] = Replied("dispense", 500)
        /\ \E m \in DOMAIN medicines : medicines[m].stockQuantity > 0
        /\ \E p \in DOMAIN prescriptions : Len(prescriptions[p].items) > 1

(***************************************************************************)
(* In-patient department: beds, admissions and medication schedules.  Beds  *)
(* and admissions carry their hospital; a request carries req.hospitalId.   *)
(* A handler that compares the row's hospitalId with req.hospitalId runs    *)
(* for the requests of the row's hospital only.                             *)
(***************************************************************************)
MaxHospitals == 2     \* hospitals with beds
MaxBeds == 2          \* Bed rows created
MaxAdmissions == 2    \* Admission rows created
MaxSchedules == 1     \* MedicationSchedule rows created

BedStatuses == {"AVAILABLE", "OCCUPIED", "RESERVED", "MAINTENANCE"}

\* POST /beds.
CreateBed ==
    /\ Len(beds) < MaxBeds
    /\ \E hospitalId \in 1..MaxHospitals :
         beds' = Append(beds, [hospitalId |-> hospitalId, status |-> "AVAILABLE"])
    /\ UNCHANGED <<billingVars, orders, opdVars, stockVars, admissions, schedules, req>>

\* PATCH /beds/:id/status.
UpdateBedStatus(b, status) ==
    /\ b \in DOMAIN beds
    /\ status \in BedStatuses
    /\ beds' = [beds EXCEPT ![b].status = status]
    /\ UNCHANGED <<billingVars, orders, opdVars, stockVars, admissions, schedules, req>>

generateAdmissionNumber(hospitalId) ==
    LET rows == SelectSeq(admissions, LAMBDA a : a.hospitalId = hospitalId)
    IN NextNumber([i \in DOMAIN rows |-> rows[i].admissionNumber])

\* POST /admissions, the bed lookup by id: 'Bed not available' unless
\* AVAILABLE.  The bed's hospitalId is not looked at.
AdmitCheckBed(r) ==
    /\ req[r] = Idle
    /\ Len(admissions) + InFlight("admit") + InFlight("admitNumbered") < MaxAdmissions
    /\ \E hospitalId \in 1..MaxHospitals, patientId \in 1..MaxPatients, bedId \in DOMAIN beds :
         req' = [req EXCEPT ![r] =
             IF beds[bedId].status # "AVAILABLE"
             THEN Replied("admit", 400)
             ELSE [op |-> "admit", hospitalId |-> hospitalId,
                   patientId |-> patientId, bedId |-> bedId]]
    /\ UNCHANGED <<billingVars, orders, opdVars, stockVars, ipdVars>>

\* POST /admissions, the admission number.
AdmitNumber(r) ==
    /\ req[r].op = "admit"
    /\ req' = [req EXCEPT ![r] =
           [op |-> "admitNumbered", hospitalId |-> req[r].hospitalId,
            patientId |-> req[r].patientId, bedId |-> req[r].bedId,
            admissionNumber |-> generateAdmissionNumber(req[r].hospitalId)]]
    /\ UNCHANGED <<billingVars, orders, opdVars, stockVars, ipdVars>>

\* POST /admissions, the transaction: the admission row and the bed's status.
\* The unique index on (hospitalId, admissionNumber) fails the create, and
\* with it the transaction, when the number is taken.
AdmitTx(r) ==
    /\ req[r].op = "admitNumbered"
    /\ IF \E a \in DOMAIN admissions :
            /\ admissions[a].hospitalId = req[r].hospitalId
            /\ admissions[a].admissionNumber = req[r].admissionNumber
       THEN /\ UNCHANGED <<beds, admissions>>
            /\ req' = [req EXCEPT ![r] = Replied("admit", 500)]
       ELSE /\ admissions' = Append(admissions,
                  [hospitalId |-> req[r].hospitalId,
                   patientId |-> req[r].patientId, bedId |-> req[r].bedId,
                   admissionNumber |-> req[r].admissionNumber,
                   status |-> "ADMITTED"])
            /\ beds' = [beds EXCEPT ![req[r].bedId].status = "OCCUPIED"]
            /\ req' = [req EXCEPT ![r] = Idle]
    /\ UNCHANGED <<billingVars, orders, opdVars, stockVars, schedules>>

\* POST /admissions/:id/medications.
AddMedication(a) ==
    /\ a \in DOMAIN admissions
    /\ Len(schedules) < MaxSchedules
    /\ schedules' = Append(schedules, [admissionId |-> a, status |-> "ACTIVE"])
    /\ UNCHANGED <<billingVars, orders, opdVars, stockVars, beds, admissions, req>>

\* POST /admissions/:id/discharge up to the transaction: the admission
\* lookup, 'Patient is not currently admitted' unless ADMITTED.
DischargeRead(r) ==
    /\ req[r] = Idle
    /\ \E a \in DOMAIN admissions :
         req' = [req EXCEPT ![r] =
             IF admissions[a].status # "ADMITTED"
             THEN Replied("discharge", 400)
             ELSE [op |-> "discharge", id |-> a, bedId |-> admissions[a].bedId]]
    /\ UNCHANGED <<billingVars, orders, opdVars, stockVars, ipdVars>>

\* POST /admissions/:id/discharge, the transaction.
DischargeTx(r) ==
    /\ req[r].op = "discharge"
    /\ schedules' = [i \in DOMAIN schedules |->
          IF schedules[i].admissionId = req[r].id /\ schedules[i].status = "ACTIVE"
          THEN [schedules[i] EXCEPT !.status = "COMPLETED"]
          ELSE schedules[i]]
    /\ admissions' = [admissions EXCEPT ![req[r].id].status = "DISCHARGED"]
    /\ beds' = [beds EXCEPT ![req[r].bedId].status = "AVAILABLE"]
    /\ req' = [req EXCEPT ![r] = Idle]
    /\ UNCHANGED <<billingVars, orders, opdVars, stockVars>>

NextIpd ==
    \/ CreateBed
    \/ \E b \in 1..MaxBeds, status \in BedStatuses : UpdateBedStatus(b, status)
    \/ \E r \in Reqs : AdmitCheckBed(r)
    \/ \E r \in Reqs : AdmitNumber(r)
    \/ \E r \in Reqs : AdmitTx(r)
    \/ \E a \in 1..MaxAdmissions : AddMedication(a)
    \/ \E r \in Reqs : DischargeRead(r)
    \/ \E r \in Reqs : DischargeTx(r)
    \/ \E r \in Reqs : Respond(r)

SpecIpd == InitEmpty /\ [][NextIpd]_vars

AdmittedOn(b) ==
    {a \in DOMAIN admissions :
        admissions[a].bedId = b /\ admissions[a].status = "ADMITTED"}

\* C6: for every Bed, in every reachable state of admit, discharge and
\* bed-status-update requests in any interleaving, the bed's status is
\* OCCUPIED if and only if exactly one Admission on it has status ADMITTED.
C6_OccupiedIffOneAdmitted ==
    \A b \in DOMAIN beds :
        beds[b].status = "OCCUPIED" <=> Cardinality(AdmittedOn(b)) = 1

\* C30: a request made under hospital scope H changes no bed of another
\* hospital: the beds that an admission request changes have hospitalId = H.
C30_AdmitWithinHospital ==
    [][\A r \in Reqs :
          (req[r].op = "admitNumbered" /\ req'[r] # req[r])
          => \A b \in DOMAIN beds :
                beds'[b] # beds[b] => beds[b].hospitalId = req[r].hospitalId]_vars

\* C16: an admission is accepted only when the target bed is AVAILABLE, and
\* then the Admission (ADMITTED) is created and the bed set to OCCUPIED in one
\* step, so of two concurrent admission requests for one AVAILABLE bed at
\* most one creates an Admission; a rejected request creates no Admission
\* and leaves the beds unchanged.
C16_AdmitOnlyToAvailableBed ==
    [][/\ Len(admissions') > Len(admissions)
          => LET admission == admissions'[Len(admissions')]
             IN /\ beds[admission.bedId].status = "AVAILABLE"
                /\ admission.status = "ADMITTED"
                /\ beds'[admission.bedId].status = "OCCUPIED"
       /\ \A r \in Reqs :
             (req[r] # req'[r] /\ req'[r].op = "replied" /\ req'[r].to = "admit")
                => UNCHANGED <<beds, admissions>>]_vars

\* C17: discharging an ADMITTED admission sets, in one step, the admission
\* to DISCHARGED, every ACTIVE MedicationSchedule of it to COMPLETED and its
\* bed to AVAILABLE; a discharge request on an admission that is not ADMITTED
\* is rejected with no change.
C17_DischargeOnlyAdmitted ==
    [][\A r \in Reqs :
          /\ (req[r].op = "discharge" /\ req'[r] # req[r])
                => /\ admissions[req[r].id].status = "ADMITTED"
                   /\ admissions'[req[r].id].status = "DISCHARGED"
                   /\ beds'[admissions[req[r].id].bedId].status = "AVAILABLE"
                   /\ \A i \in DOMAIN schedules' :
                         schedules'[i].admissionId = req[r].id
                         => schedules'[i].status # "ACTIVE"
          /\ (req[r] = Idle /\ req'[r] = Replied("discharge", 400))
                => UNCHANGED <<beds, admissions, schedules>>]_vars

\* C38: a discharge never frees a bed that another admission holds: the
\* step of a discharge request does not set to AVAILABLE a bed on which an
\* admission other than the discharged one is ADMITTED.
C38_DischargeKeepsReoccupiedBed ==
    [][\A r \in Reqs :
          (req[r].op = "discharge" /\ req'[r] # req[r])
          => \A b \in DOMAIN beds :
                (AdmittedOn(b) \ {req[r].id} # {} /\ beds[b].status # "AVAILABLE")
                => beds'[b].status # "AVAILABLE"]_vars

\* C39: a patient has at most one ADMITTED admission at any time.
C39_OneAdmissionPerPatient ==
    \A a, c \in DOMAIN admissions :
        /\ admissions[a].patientId = admissions[c].patientId
        /\ admissions[a].status = "ADMITTED"
        /\ admissions[c].status = "ADMITTED"
        => a = c

====
